---------------------------- MODULE Spec2Model ----------------------------
(***************************************************************************)
(* A model of the TypeScript fractal tree (TreeFractal.ts): the BlockMap   *)
(* grid (setBlock, getBlock, drawLine, render) and the FractalTree         *)
(* generator (constructor, drawTree, random).                              *)
(*                                                                         *)
(* Three next-state relations share the variables:                         *)
(*   SpecGrid  setBlock / getBlock calls on a small BlockMap, then render  *)
(*             stepped one loop iteration at a time;                       *)
(*   SpecLine  one drawLine call stepped one loop iteration at a time;     *)
(*   Spec      new FractalTree(depth, new BlockMap(900, 700)), the         *)
(*             recursion of drawTree kept as an explicit stack of frames   *)
(*             (FairSpec adds the progress a synchronous run makes).       *)
(***************************************************************************)
EXTENDS Integers, Sequences, FiniteSets, TLC

VARIABLES
    map,      \* BlockMap.map: the Blocks stored, keyed by <<x, y>>; a key
              \* that is absent is a hole of the JavaScript array
    width,    \* this.map.length
    height,   \* this.map[x].length, the same for every column
    pc,       \* where the program is
    nOps,     \* number of setBlock calls made so far
    ret,      \* outcome of the latest getBlock call
    written,  \* history: the latest write requested at each in-bounds cell
    ri,       \* render: loop variable i
    rj,       \* render: loop variable j
    ctx,      \* the canvas context: fillRect calls made, with fillStyle
    line,     \* drawLine: parameters and locals of the running call
    calls,    \* history: the setBlock calls the running drawLine has made
    stack,    \* drawTree: the frames of the recursion, innermost last
    rng,      \* Math.random: the stream of values it hands out
    nDraws,   \* Math.random: number of values handed out so far
    lines,    \* history: the drawLine calls drawTree has made, in order
    depth0    \* the depth FractalTree was constructed with

vars == <<map, width, height, pc, nOps, ret, written, ri, rj, ctx, line,
          calls, stack, rng, nDraws, lines, depth0>>

gridVars   == <<map, width, height>>
renderVars == <<ri, rj, ctx>>
lineVars   == <<line, calls>>
treeVars   == <<stack, rng, nDraws, lines, depth0>>

(***************************************************************************)
(* Bounds of the model.                                                    *)
(***************************************************************************)
MaxDim    == 2   \* SpecGrid: BlockMap width and height range over 1..MaxDim
MaxOps    == 2   \* SpecGrid: setBlock calls per run
MaxCoord  == 3   \* SpecLine: endpoints range over -1..MaxCoord
MaxDepth  == 3   \* Spec: FractalTree depth ranges over 0..MaxDepth
RandDen   == 2   \* Math.random() ranges over k / RandDen, k in 0..RandDen-1
RandPeriod == 3  \* Math.random() repeats its values with this period

\* Sample (thickness, color) arguments of setBlock and drawLine.
Paints == {[thickness |-> 1, color |-> "#000000"],
           [thickness |-> 3, color |-> "#1a2b3c"]}

Abs(n)    == IF n < 0 THEN -n ELSE n
Max(a, b) == IF a > b THEN a ELSE b
Min(a, b) == IF a < b THEN a ELSE b

(***************************************************************************)
(* Block and BlockMap.                                                     *)
(***************************************************************************)
Block(color, thickness) == [color |-> color, thickness |-> thickness]

\* The value of a hole of an array, and of an index outside it.
Undefined == [undefined |-> TRUE]

\* new BlockMap(width, height): every column is an array of holes.
EmptyMap == << >>

\* this.map[x] is an array exactly for the indices 0 .. length-1.
HasColumn(w, x) == x >= 0 /\ x < w

\* this.map[x][y], for a column that exists.
At(m, x, y) == IF <<x, y>> \in DOMAIN m THEN m[<<x, y>>] ELSE Undefined

\* The cells of the grid.
InBounds(w, h, x, y) == x >= 0 /\ x < w /\ y >= 0 /\ y < h

\* this.map[x][y] = b
Store(m, x, y, b) ==
    [c \in (DOMAIN m) \cup {<<x, y>>} |-> IF c = <<x, y>> THEN b ELSE m[c]]

\* A setBlock that keeps a Block already stored.
setBlockKeep(m, w, h, x, y, thickness, color) ==
    IF x < w /\ HasColumn(w, x) /\ y < h /\ <<x, y>> \notin DOMAIN m
    THEN Store(m, x, y, Block(color, thickness))
    ELSE m

\* setBlock(x, y, thickness, color): the map after the call.
setBlock(m, w, h, x, y, thickness, color) ==
    IF x < w
    THEN IF HasColumn(w, x)
         THEN IF y < h
              THEN Store(m, x, y, Block(color, thickness))
              ELSE m
         ELSE m
    ELSE m

\* getBlock(x, y): what the call returns or throws.  this.map[x].length
\* throws a TypeError when this.map[x] is undefined.
getBlock(m, w, h, x, y) ==
    IF x <= w
    THEN IF ~HasColumn(w, x)
         THEN [kind |-> "TypeError", value |-> Undefined]
         ELSE IF y <= h
              THEN [kind |-> "return", value |-> At(m, x, y)]
              ELSE [kind |-> "RangeError: y is out of bounds",
                    value |-> Undefined]
    ELSE [kind |-> "RangeError: x is out of bounds", value |-> Undefined]

NoRet == [op |-> "none"]

NoLine == [active |-> FALSE]

(***************************************************************************)
(* SpecGrid: setBlock and getBlock calls, then one render.                 *)
(***************************************************************************)
GridXs == -1 .. (width + 1)
GridYs == -1 .. (height + 1)

InitGrid ==
    /\ map = EmptyMap
    /\ width \in 1 .. MaxDim
    /\ height \in 1 .. MaxDim
    /\ pc = "idle"
    /\ nOps = 0
    /\ ret = NoRet
    /\ written = << >>
    /\ ri = 0 /\ rj = 0 /\ ctx = << >>
    /\ line = NoLine /\ calls = << >>
    /\ stack = << >> /\ rng = << >> /\ nDraws = 0 /\ lines = << >>
    /\ depth0 = 0

\* The latest write requested at each cell of the grid, the one before it,
\* and how many writes were requested there.
Record(wr, w, h, x, y, thickness, color) ==
    IF InBounds(w, h, x, y)
    THEN [c \in (DOMAIN wr) \cup {<<x, y>>} |->
            IF c = <<x, y>>
            THEN [block |-> Block(color, thickness),
                  before |-> IF c \in DOMAIN wr THEN wr[c].block
                             ELSE Undefined,
                  count |-> IF c \in DOMAIN wr THEN wr[c].count + 1 ELSE 1]
            ELSE wr[c]]
    ELSE wr

DoSetBlock(x, y, thickness, color) ==
    /\ pc = "idle"
    /\ nOps < MaxOps
    /\ map' = setBlock(map, width, height, x, y, thickness, color)
    /\ written' = Record(written, width, height, x, y, thickness, color)
    /\ nOps' = nOps + 1
    /\ ret' = NoRet
    /\ UNCHANGED <<width, height, pc, renderVars, lineVars, treeVars>>

DoGetBlock(x, y) ==
    /\ pc = "idle"
    /\ ret' = [op |-> "getBlock", x |-> x, y |-> y,
               res |-> getBlock(map, width, height, x, y)]
    /\ UNCHANGED <<gridVars, pc, nOps, written, renderVars, lineVars,
                   treeVars>>

\* The fillRect call of render's loop body, with the fillStyle it is made
\* under.
FillRect(i, j, b) ==
    [x |-> i, y |-> j, w |-> b.thickness, h |-> b.thickness,
     fillStyle |-> b.color]

\* if (this.map[i][j] && this.map[i][j].color)
Truthy(m, i, j) ==
    /\ At(m, i, j) # Undefined
    /\ At(m, i, j).color # ""

\* Truthy for a render that paints the holes too.
RenderBodyAll(m, i, j, c) ==
    IF Truthy(m, i, j) THEN Append(c, FillRect(i, j, At(m, i, j)))
    ELSE Append(c, FillRect(i, j, Block("#000000", 1)))

\* The body of render's inner loop at (i, j): the context after it.
RenderBody(m, i, j, c) ==
    IF Truthy(m, i, j) THEN Append(c, FillRect(i, j, At(m, i, j))) ELSE c

\* flakeMap.render(ctx): var i = 0, and the first var j = 0 if i < length.
RenderBegin ==
    /\ pc = "idle"
    /\ pc' = "render"
    /\ ri' = 0 /\ rj' = 0 /\ ctx' = << >>
    /\ ret' = NoRet
    /\ UNCHANGED <<gridVars, nOps, written, lineVars, treeVars>>

\* One iteration of the inner loop: j < this.map[i].length.
RenderCell ==
    /\ pc = "render"
    /\ ri < width
    /\ rj < height
    /\ ctx' = RenderBody(map, ri, rj, ctx)
    /\ rj' = rj + 1
    /\ UNCHANGED <<gridVars, pc, nOps, ret, written, ri, lineVars, treeVars>>

\* The inner loop ends: i++, and j starts again at 0.
RenderNextColumn ==
    /\ pc = "render"
    /\ ri < width
    /\ rj >= height
    /\ ri' = ri + 1
    /\ rj' = 0
    /\ UNCHANGED <<gridVars, pc, nOps, ret, written, ctx, lineVars, treeVars>>

\* The outer loop ends: render returns.
RenderEnd ==
    /\ pc = "render"
    /\ ri >= width
    /\ pc' = "rendered"
    /\ UNCHANGED <<gridVars, nOps, ret, written, renderVars, lineVars,
                   treeVars>>

NextGrid ==
    \/ \E x \in GridXs, y \in GridYs, p \in Paints :
          DoSetBlock(x, y, p.thickness, p.color)
    \/ \E x \in GridXs, y \in GridYs : DoGetBlock(x, y)
    \/ RenderBegin
    \/ RenderCell
    \/ RenderNextColumn
    \/ RenderEnd

SpecGrid == InitGrid /\ [][NextGrid]_vars

(***************************************************************************)
(* Properties of SpecGrid.                                                 *)
(***************************************************************************)
Raised(res) == res.kind # "return"

\* C2: getBlock raises an error instead of returning a value whenever
\* x = width, and whenever x is in bounds and y = height; at
\* (width-1, height-1) it returns the cell; at width+1 and at height+1 it
\* raises as well.
C2_GetBlockRaisesAtEdge ==
    ret.op = "getBlock" =>
        /\ ret.x = width => Raised(ret.res)
        /\ (HasColumn(width, ret.x) /\ ret.y = height) => Raised(ret.res)
        /\ (ret.x = width - 1 /\ ret.y = height - 1) =>
               ret.res = [kind |-> "return",
                          value |-> At(map, ret.x, ret.y)]
        /\ ret.x = width + 1 => Raised(ret.res)
        /\ (HasColumn(width, ret.x) /\ ret.y = height + 1) =>
               Raised(ret.res)

\* C3: a setBlock at a coordinate outside [0,width) x [0,height), too large
\* or negative in either axis, leaves the grid unchanged: every getBlock
\* gives what it gave before, and the dimensions are the same.
C3_OutOfBoundsWriteIgnored ==
    [][\A x \in GridXs, y \in GridYs, p \in Paints :
          (~InBounds(width, height, x, y)
             /\ DoSetBlock(x, y, p.thickness, p.color))
          => /\ width' = width
             /\ height' = height
             /\ \A u \in GridXs, v \in GridYs :
                   getBlock(map', width', height', u, v)
                     = getBlock(map, width, height, u, v)]_vars

\* C5: getBlock at an in-bounds coordinate returns the thickness and color
\* of the most recent setBlock there, whatever was stored before; a getBlock
\* call made after such writes returned exactly that.
C5_ReadsLatestWrite ==
    /\ \A c \in DOMAIN written :
          getBlock(map, width, height, c[1], c[2])
            = [kind |-> "return", value |-> written[c].block]
    /\ (ret.op = "getBlock" /\ <<ret.x, ret.y>> \in DOMAIN written) =>
          /\ ret.res.kind = "return"
          /\ ret.res.value.thickness = written[<<ret.x, ret.y>>].block.thickness
          /\ ret.res.value.color = written[<<ret.x, ret.y>>].block.color

\* C5 witness: a cell written twice, with different values, was read back.
C5_Witness ==
    /\ ret.op = "getBlock"
    /\ <<ret.x, ret.y>> \in DOMAIN written
    /\ written[<<ret.x, ret.y>>].count = 2
    /\ written[<<ret.x, ret.y>>].before # written[<<ret.x, ret.y>>].block
    /\ ret.res.value = written[<<ret.x, ret.y>>].block

LexBefore(a, b) == a.x < b.x \/ (a.x = b.x /\ a.y < b.y)

\* render has made one fillRect call for every Block in the grid, none for a
\* hole, each with the cell's own arguments, in the order of x, then of y.
RenderedOnce ==
    pc = "rendered" =>
        /\ \A x \in 0 .. width - 1, y \in 0 .. height - 1 :
              Cardinality({k \in 1 .. Len(ctx) :
                              ctx[k].x = x /\ ctx[k].y = y})
                = IF At(map, x, y) # Undefined THEN 1 ELSE 0
        /\ \A k \in 1 .. Len(ctx) :
              /\ InBounds(width, height, ctx[k].x, ctx[k].y)
              /\ At(map, ctx[k].x, ctx[k].y) # Undefined
              /\ ctx[k].w = At(map, ctx[k].x, ctx[k].y).thickness
              /\ ctx[k].h = At(map, ctx[k].x, ctx[k].y).thickness
              /\ ctx[k].fillStyle = At(map, ctx[k].x, ctx[k].y).color
        /\ \A k, l \in 1 .. Len(ctx) : k < l => LexBefore(ctx[k], ctx[l])

\* C9: render calls fillRect exactly once for every present cell and never
\* for an absent one, with (x, y, thickness, thickness) and the cell's
\* color, ordered by increasing x and, within one x, by increasing y; and
\* no step of render changes the grid.
C9_RenderPaintsPresentCells ==
    /\ []RenderedOnce
    /\ [][pc = "render" => UNCHANGED gridVars]_vars

\* C9 witness: render finished on a grid with two Blocks and a hole.
C9_Witness ==
    /\ pc = "rendered"
    /\ Len(ctx) = 2
    /\ \E x \in 0 .. width - 1, y \in 0 .. height - 1 :
          At(map, x, y) = Undefined

(***************************************************************************)
(* drawLine.  err holds halves: the model keeps err2 = 2 * err, so that    *)
(* (dx > dy ? dx : -dy) / 2 stays an integer; e2 > -dx is err2 > -2 dx.    *)
(***************************************************************************)
\* The parameters and locals of drawLine when the loop is first reached.
LineInit(x0, x1, y0, y1, thickness, color) ==
    LET dx == Abs(x1 - x0)
        dy == Abs(y1 - y0)
    IN  [active |-> TRUE,
         fromX |-> x0, fromY |-> y0,
         x0 |-> x0, y0 |-> y0, x1 |-> x1, y1 |-> y1,
         dx |-> dx, sx |-> IF x0 < x1 THEN 1 ELSE -1,
         dy |-> dy, sy |-> IF y0 < y1 THEN 1 ELSE -1,
         err2 |-> IF dx > dy THEN dx ELSE -dy,
         thickness |-> thickness, color |-> color]

\* while (!(x0 === x1 && y0 === y1))
LineRunning(l) == ~(l.x0 = l.x1 /\ l.y0 = l.y1)

\* The loop body after its setBlock call: the locals after one iteration.
LineStep(l) ==
    LET e2   == l.err2
        stepX == e2 > -(2 * l.dx)
        stepY == e2 < 2 * l.dy
    IN  [l EXCEPT
           !.err2 = (IF stepX THEN e2 - 2 * l.dy ELSE e2)
                      + (IF stepY THEN 2 * l.dx ELSE 0),
           !.x0 = IF stepX THEN l.x0 + l.sx ELSE l.x0,
           !.y0 = IF stepY THEN l.y0 + l.sy ELSE l.y0]

\* drawLine run to its end: the map after the call.  The map and the locals
\* of each iteration are bound through a one-element set, so that they are
\* evaluated once per iteration.
RECURSIVE DrawLineRun(_, _, _, _)
DrawLineRun(m0, w, h, l0) ==
    CHOOSE out \in
        {IF LineRunning(l)
         THEN DrawLineRun(setBlock(m, w, h, l.x0, l.y0, l.thickness, l.color),
                          w, h, LineStep(l))
         ELSE m : m \in {m0}, l \in {l0}} : TRUE

\* map.drawLine(x0, x1, y0, y1, thickness, color): the map after the call.
drawLine(m, w, h, x0, x1, y0, y1, thickness, color) ==
    DrawLineRun(m, w, h, LineInit(x0, x1, y0, y1, thickness, color))

(***************************************************************************)
(* SpecLine: one drawLine call on an empty BlockMap, an iteration a step.  *)
(***************************************************************************)
LineCoords == -1 .. MaxCoord

InitLine ==
    /\ map = EmptyMap
    /\ width = MaxCoord + 1
    /\ height = MaxCoord + 1
    /\ pc = "idle"
    /\ nOps = 0
    /\ ret = NoRet
    /\ written = << >>
    /\ ri = 0 /\ rj = 0 /\ ctx = << >>
    /\ line = NoLine /\ calls = << >>
    /\ stack = << >> /\ rng = << >> /\ nDraws = 0 /\ lines = << >>
    /\ depth0 = 0

LineCall(x0, x1, y0, y1, thickness, color) ==
    /\ pc = "idle"
    /\ pc' = "line"
    /\ line' = LineInit(x0, x1, y0, y1, thickness, color)
    /\ calls' = << >>
    /\ UNCHANGED <<gridVars, nOps, ret, written, renderVars, treeVars>>

LineIter ==
    /\ pc = "line"
    /\ LineRunning(line)
    /\ map' = setBlock(map, width, height, line.x0, line.y0,
                       line.thickness, line.color)
    /\ calls' = Append(calls, <<line.x0, line.y0>>)
    /\ line' = LineStep(line)
    /\ UNCHANGED <<width, height, pc, nOps, ret, written, renderVars,
                   treeVars>>

LineExit ==
    /\ pc = "line"
    /\ ~LineRunning(line)
    /\ pc' = "lineDone"
    /\ UNCHANGED <<gridVars, nOps, ret, written, renderVars, lineVars,
                   treeVars>>

NextLine ==
    \/ \E x0 \in LineCoords, x1 \in LineCoords, y0 \in LineCoords,
          y1 \in LineCoords, p \in Paints :
          LineCall(x0, x1, y0, y1, p.thickness, p.color)
    \/ LineIter
    \/ LineExit

SpecLine == InitLine /\ [][NextLine]_vars

(***************************************************************************)
(* Properties of SpecLine.                                                 *)
(***************************************************************************)
Adjacent(a, b) ==
    a # b /\ Abs(a[1] - b[1]) <= 1 /\ Abs(a[2] - b[2]) <= 1

\* C1: between two in-bounds points drawLine paints a connected
\* (8-neighbour) path of exactly max(|x1-x0|, |y1-y0|) + 1 cells that holds
\* the start point and the end point; for x0 = x1 and y0 = y1 it paints
\* exactly the one cell (x0, y0).
C1_LinePaintsPathWithBothEnds ==
    (/\ pc = "lineDone"
     /\ InBounds(width, height, line.fromX, line.fromY)
     /\ InBounds(width, height, line.x1, line.y1))
    => /\ Cardinality(DOMAIN map) = Max(line.dx, line.dy) + 1
       /\ <<line.fromX, line.fromY>> \in DOMAIN map
       /\ <<line.x1, line.y1>> \in DOMAIN map
       /\ DOMAIN map = {calls[k] : k \in 1 .. Len(calls)}
       /\ \A k \in 1 .. Len(calls) - 1 : Adjacent(calls[k], calls[k + 1])
       /\ \A c \in DOMAIN map :
             map[c] = Block(line.color, line.thickness)

\* C6: for all integer end points drawLine stops, after exactly
\* max(dx, dy) + 1 setBlock calls, and the current point never leaves the
\* bounding box of the two end points.
C6_LineStopsAfterMaxPlusOneSteps ==
    pc \in {"line", "lineDone"} =>
        /\ Len(calls) <= Max(line.dx, line.dy) + 1
        /\ pc = "lineDone" => Len(calls) = Max(line.dx, line.dy) + 1
        /\ line.x0 >= Min(line.fromX, line.x1)
        /\ line.x0 <= Max(line.fromX, line.x1)
        /\ line.y0 >= Min(line.fromY, line.y1)
        /\ line.y0 <= Max(line.fromY, line.y1)

(***************************************************************************)
(* FractalTree.  Coordinates are kept in millionths of a cell, and the     *)
(* sine of a whole number of degrees is read from a table of millionths:   *)
(* Math.cos(angle * deg2Rad) * depth * 10 is CosE6(angle) * depth * 10.    *)
(***************************************************************************)
SinTable ==
 << 0, 17452, 34899, 52336, 69756, 87156, 104528,
    121869, 139173, 156434, 173648, 190809, 207912, 224951,
    241922, 258819, 275637, 292372, 309017, 325568, 342020,
    358368, 374607, 390731, 406737, 422618, 438371, 453990,
    469472, 484810, 500000, 515038, 529919, 544639, 559193,
    573576, 587785, 601815, 615661, 629320, 642788, 656059,
    669131, 681998, 694658, 707107, 719340, 731354, 743145,
    754710, 766044, 777146, 788011, 798636, 809017, 819152,
    829038, 838671, 848048, 857167, 866025, 874620, 882948,
    891007, 898794, 906308, 913545, 920505, 927184, 933580,
    939693, 945519, 951057, 956305, 961262, 965926, 970296,
    974370, 978148, 981627, 984808, 987688, 990268, 992546,
    994522, 996195, 997564, 998630, 999391, 999848, 1000000 >>

\* Math.sin(angle * this.deg2Rad), in millionths.
SinE6(angle) ==
    LET a == angle % 360
    IN  IF a <= 90 THEN SinTable[a + 1]
        ELSE IF a <= 180 THEN SinTable[180 - a + 1]
        ELSE IF a <= 270 THEN -SinTable[a - 180 + 1]
        ELSE -SinTable[360 - a + 1]

\* Math.cos(angle * this.deg2Rad), in millionths.
CosE6(angle) == SinE6(angle + 90)

\* Math.round of a coordinate in millionths: the nearest integer, a half
\* going up.
Round(v) == (v + 500000) \div 1000000

\* Math.random(): the numerator k of the next value k / RandDen.
MathRandom(stream, n) == stream[(n % Len(stream)) + 1]

\* random(min, max) for the Math.random() value u / RandDen.
random(min, max, u) == ((u * (max - min + 1)) \div RandDen) + min

HexDigits ==
    <<"0", "1", "2", "3", "4", "5", "6", "7", "8", "9",
      "a", "b", "c", "d", "e", "f">>

\* n.toString(16), for n >= 0: no leading zeros.
RECURSIVE ToString16(_)
ToString16(n) ==
    IF n < 16 THEN HexDigits[n + 1]
    ELSE ToString16(n \div 16) \o HexDigits[(n % 16) + 1]

\* '#' + (Math.random() * 0xFFFFFF << 0).toString(16)
RandomColor(u) == "#" \o ToString16((u * 16777215) \div RandDen)

\* A guard that stops one level early.
BranchesAboveOne(depth) == depth > 1

\* if (depth > 0)
Branches(depth) == depth > 0

\* A leaf test that takes depth 3 for a leaf.
IsLeafUpToThree(depth) == depth <= 3

\* if (depth < 3)
IsLeaf(depth) == depth < 3

\* The end point (x2, y2) of the branch of frame f, in millionths.
EndX(f) == f.x1 + CosE6(f.angle) * f.depth * 10
EndY(f) == f.y1 + SinE6(f.angle) * f.depth * 10

\* The arguments of the drawLine call of frame f; u is the Math.random()
\* value at hand, used by a leaf only.
LineCallOf(f, u) ==
    [x0 |-> Round(f.x1), x1 |-> Round(EndX(f)),
     y0 |-> Round(f.y1), y1 |-> Round(EndY(f)),
     thickness |-> f.depth,
     color |-> IF IsLeaf(f.depth) THEN RandomColor(u) ELSE "#000000"]

\* The number of Math.random() calls made for the color of the line.
ColorDraws(depth) == IF IsLeaf(depth) THEN 1 ELSE 0

\* A recursive call that takes two levels off.
ChildDepthTwoLess(depth) == depth - 2

\* The depth handed to a recursive call.
ChildDepth(depth) == depth - 1

\* The angle handed to the first and to the second recursive call; r is
\* that call's own this.random(20, 30).
FirstAngleMirrored(angle, r) == angle + r

FirstAngle(angle, r) == angle - r

SecondAngle(angle, r) == angle + r

\* The frame of a call drawTree(x1, y1, angle, depth); path tells the calls
\* apart: 1 for a first recursive call, 2 for a second, from the root.
Frame(x1, y1, angle, depth, path) ==
    [x1 |-> x1, y1 |-> y1, angle |-> angle, depth |-> depth,
     at |-> "enter", path |-> path]

Top == stack[Len(stack)]

Pop == SubSeq(stack, 1, Len(stack) - 1)

SetTop(f) == [stack EXCEPT ![Len(stack)] = f]

(***************************************************************************)
(* Spec: exec() up to the end of new FractalTree(depth, flakeMap).         *)
(***************************************************************************)
Init ==
    /\ map = EmptyMap
    /\ width = 900
    /\ height = 700
    /\ pc = "idle"
    /\ nOps = 0
    /\ ret = NoRet
    /\ written = << >>
    /\ ri = 0 /\ rj = 0 /\ ctx = << >>
    /\ line = NoLine /\ calls = << >>
    /\ stack = << >>
    /\ rng \in [1 .. RandPeriod -> 0 .. RandDen - 1]
    /\ nDraws = 0
    /\ lines = << >>
    /\ depth0 = 0

\* new FractalTree(depth, map): this.drawTree(450, 700, -90, depth).
Construct(depth) ==
    /\ pc = "idle"
    /\ pc' = "tree"
    /\ depth0' = depth
    /\ stack' = <<Frame(450 * 1000000, 700 * 1000000, -90, depth, << >>)>>
    /\ UNCHANGED <<gridVars, nOps, ret, written, renderVars, lineVars, rng,
                   nDraws, lines>>

\* drawTree with depth > 0, up to and including the drawLine call.
TreeDraw ==
    /\ pc = "tree"
    /\ Top.at = "enter"
    /\ Branches(Top.depth)
    /\ LET c == LineCallOf(Top, MathRandom(rng, nDraws))
       IN  /\ map' = drawLine(map, width, height, c.x0, c.x1, c.y0, c.y1,
                              c.thickness, c.color)
           /\ lines' = Append(lines,
                  [call |-> c, depth |-> Top.depth, angle |-> Top.angle,
                   path |-> Top.path, x1 |-> Top.x1, y1 |-> Top.y1,
                   drawn |-> {nDraws + k - 1 :
                                k \in 1 .. ColorDraws(Top.depth)}])
    /\ nDraws' = nDraws + ColorDraws(Top.depth)
    /\ stack' = SetTop([Top EXCEPT !.at = "first"])
    /\ UNCHANGED <<width, height, pc, nOps, ret, written, renderVars,
                   lineVars, rng, depth0>>

\* this.drawTree(x2, y2, angle - this.random(20, 30), depth - 1)
TreeCallFirst ==
    /\ pc = "tree"
    /\ Top.at = "first"
    /\ LET r == random(20, 30, MathRandom(rng, nDraws))
       IN  stack' = Append(SetTop([Top EXCEPT !.at = "second"]),
                           Frame(EndX(Top), EndY(Top),
                                 FirstAngle(Top.angle, r),
                                 ChildDepth(Top.depth),
                                 Append(Top.path, 1)))
    /\ nDraws' = nDraws + 1
    /\ UNCHANGED <<gridVars, pc, nOps, ret, written, renderVars, lineVars,
                   rng, lines, depth0>>

\* this.drawTree(x2, y2, angle + this.random(20, 30), depth - 1)
TreeCallSecond ==
    /\ pc = "tree"
    /\ Top.at = "second"
    /\ LET r == random(20, 30, MathRandom(rng, nDraws))
       IN  stack' = Append(SetTop([Top EXCEPT !.at = "return"]),
                           Frame(EndX(Top), EndY(Top),
                                 SecondAngle(Top.angle, r),
                                 ChildDepth(Top.depth),
                                 Append(Top.path, 2)))
    /\ nDraws' = nDraws + 1
    /\ UNCHANGED <<gridVars, pc, nOps, ret, written, renderVars, lineVars,
                   rng, lines, depth0>>

\* drawTree returns: after its second recursive call, or at once when
\* depth > 0 is false.  The return of the outermost call ends the
\* constructor.
TreeReturn ==
    /\ pc = "tree"
    /\ \/ Top.at = "return"
       \/ Top.at = "enter" /\ ~Branches(Top.depth)
    /\ stack' = Pop
    /\ pc' = IF Len(stack) = 1 THEN "done" ELSE "tree"
    /\ UNCHANGED <<gridVars, nOps, ret, written, renderVars, lineVars, rng,
                   nDraws, lines, depth0>>

Next ==
    \/ \E depth \in 0 .. MaxDepth : Construct(depth)
    \/ TreeDraw
    \/ TreeCallFirst
    \/ TreeCallSecond
    \/ TreeReturn

Spec == Init /\ [][Next]_vars

\* exec() is one synchronous run: a step that can be taken is taken.
FairSpec == Spec /\ WF_vars(Next)

(***************************************************************************)
(* Properties of Spec and FairSpec.                                        *)
(***************************************************************************)
RECURSIVE Pow2(_)
Pow2(n) == IF n <= 0 THEN 1 ELSE 2 * Pow2(n - 1)

\* C4: generation started at depth N > 0 makes exactly 2^N - 1 drawLine
\* calls, each with the thickness equal to the depth of the invocation that
\* made it, 2^(N-d) of them of thickness d.
C4_LineCountAndThickness ==
    /\ \A k \in 1 .. Len(lines) : lines[k].call.thickness = lines[k].depth
    /\ (pc = "done" /\ depth0 > 0) =>
          /\ Len(lines) = Pow2(depth0) - 1
          /\ \A d \in 1 .. depth0 :
                Cardinality({k \in 1 .. Len(lines) :
                                lines[k].call.thickness = d})
                  = Pow2(depth0 - d)

\* C4 witness: generation at depth 3 has ended with its seven lines.
C4_Witness ==
    /\ pc = "done"
    /\ depth0 = 3
    /\ Len(lines) = 7
    /\ \E k \in 1 .. Len(lines) : lines[k].call.thickness = 1

\* No invocation has a depth outside 0 .. D, every recursive call has the
\* depth of its caller less one, and an invocation of depth 0 draws no line
\* and calls nothing.
DepthDiscipline ==
    /\ \A i \in 1 .. Len(stack) : stack[i].depth \in 0 .. depth0
    /\ \A i \in 2 .. Len(stack) : stack[i].depth = stack[i - 1].depth - 1
    /\ \A i \in 1 .. Len(stack) :
          stack[i].depth = 0 => (i = Len(stack) /\ stack[i].at = "enter")
    /\ \A k \in 1 .. Len(lines) : lines[k].depth > 0

\* C7: drawTree with depth 0 draws no line and makes no recursive call;
\* every recursive call of an invocation of depth d > 0 has depth d - 1; so
\* generation started from any depth D >= 0 ends, and no invocation has a
\* depth outside 0 .. D.
C7_DepthDecreasesAndGenerationEnds ==
    /\ []DepthDiscipline
    /\ <>(pc = "done")

\* C7 witness: an invocation of depth 0 is running, D levels below the root.
C7_Witness ==
    /\ pc = "tree"
    /\ depth0 = 3
    /\ Len(stack) = 4
    /\ Top.depth = 0
    /\ Len(lines) >= 3

\* C8: a line of a branch of depth >= 3 has color #000000 and no random
\* draw; a line of a branch of depth 1 or 2 has the color of exactly one
\* random draw, made for that line alone; so every Block of thickness >= 3
\* in the grid has color #000000.
C8_WoodIsBlack ==
    /\ \A k \in 1 .. Len(lines) :
          /\ lines[k].depth >= 3 =>
                (lines[k].call.color = "#000000" /\ lines[k].drawn = {})
          /\ lines[k].depth \in {1, 2} =>
                /\ Cardinality(lines[k].drawn) = 1
                /\ \A n \in lines[k].drawn :
                      lines[k].call.color = RandomColor(MathRandom(rng, n))
          /\ \A l \in 1 .. Len(lines) :
                k # l => lines[k].drawn \cap lines[l].drawn = {}
    /\ \A c \in DOMAIN map :
          map[c].thickness >= 3 => map[c].color = "#000000"

\* C8 witness: the grid holds a Block of thickness 3 and a colored leaf.
C8_Witness ==
    /\ \E c \in DOMAIN map : map[c].thickness = 3
    /\ \E c \in DOMAIN map :
          map[c].thickness < 3 /\ map[c].color # "#000000"

\* The cells the loop of drawLine visits before it stops.
RECURSIVE LineCells(_)
LineCells(l0) ==
    UNION {IF LineRunning(l)
           THEN {<<l.x0, l.y0>>} \cup LineCells(LineStep(l))
           ELSE {} : l \in {l0}}

\* The cells of the k-th line drawn.
Raster(k) ==
    LineCells(LineInit(lines[k].call.x0, lines[k].call.x1,
                       lines[k].call.y0, lines[k].call.y1,
                       lines[k].call.thickness, lines[k].call.color))

\* The pairs <<k, c>> with c a cell of the k-th line drawn.
Cover == UNION {{<<k, c>> : c \in Raster(k)} : k \in 1 .. Len(lines)}

IsPrefix(p, q) == Len(p) <= Len(q) /\ SubSeq(q, 1, Len(p)) = p

\* p comes before q in the pre-order of the call tree.
PathBefore(p, q) ==
    \/ Len(p) < Len(q) /\ IsPrefix(p, q)
    \/ \E i \in 1 .. Min(Len(p), Len(q)) :
          /\ SubSeq(p, 1, i - 1) = SubSeq(q, 1, i - 1)
          /\ p[i] = 1
          /\ q[i] = 2

\* C10: the lines are drawn in depth-first pre-order, a branch's own line
\* before its children start and the whole subtree of the (angle - r) child
\* before the (angle + r) child; every painted cell of the grid holds the
\* thickness and color of the last line drawn whose cells include it, and a
\* cell of the grid is painted exactly when some line's cells include it.
C10_PreOrderLastLineWins ==
    LET n == Len(lines)
    IN  /\ \A k, l \in 1 .. n :
              k < l => PathBefore(lines[k].path, lines[l].path)
        /\ \A i \in 1 .. Len(stack) - 1 :
              \E k \in 1 .. n : lines[k].path = stack[i].path
        /\ \A k, l \in 1 .. n :
              /\ lines[l].path = Append(lines[k].path, 1) =>
                    (lines[k].angle - lines[l].angle) \in 20 .. 30
              /\ lines[l].path = Append(lines[k].path, 2) =>
                    (lines[l].angle - lines[k].angle) \in 20 .. 30
        /\ \A cover \in {Cover} :
              /\ \A c \in DOMAIN map :
                    InBounds(width, height, c[1], c[2]) =>
                       \E k \in 1 .. n : <<k, c>> \in cover
              /\ \A p \in cover :
                    LET k == p[1]
                        c == p[2]
                    IN  IF InBounds(width, height, c[1], c[2])
                        THEN /\ c \in DOMAIN map
                             /\ (\A l \in (k + 1) .. n : <<l, c>> \notin cover)
                                  => map[c] = Block(lines[k].call.color,
                                                    lines[k].call.thickness)
                        ELSE c[2] >= 0 => c \notin DOMAIN map

\* C10 witness: generation has ended; a cell lies on two lines of different
\* colors and holds the later one, and a cell of a line is out of bounds.
C10_Witness ==
    /\ pc = "done"
    /\ depth0 >= 2
    /\ \E k, l \in 1 .. Len(lines) :
          /\ k < l
          /\ lines[k].call.color # lines[l].call.color
          /\ \E c \in Raster(k) \cap Raster(l) :
                /\ c \in DOMAIN map
                /\ map[c].color = lines[l].call.color
    /\ \E c \in Raster(1) : ~InBounds(width, height, c[1], c[2])

=============================================================================
